---------------------------- MODULE Spec2Model ----------------------------
(***************************************************************************)
(* A model of the colour library's ACES input device transform             *)
(* (colour/models/aces_rgb_idt.py), alone and called from several threads, *)
(* of the Rec. 709 and Adobe Wide Gamut RGB colourspace datasets           *)
(* (colour/models/dataset), and of the extrapolator of colour/algebra.     *)
(*                                                                         *)
(* Numbers.  The spectral integration is carried out in exact extended     *)
(* rational arithmetic: a value is a record [n, d] in lowest terms, d = 0  *)
(* standing for the IEEE values the floating point division produces       *)
(* (1/0 = inf, -1/0 = -inf, 0/0 = nan).  Floating point rounding (about    *)
(* 1e-16 relative) is not modelled.                                        *)
(***************************************************************************)
EXTENDS Integers, Sequences, FiniteSets, TLC

(***************************************************************************)
(* Bounds of the model.                                                    *)
(***************************************************************************)
\* Number of wavelengths of the ACES_RICD sampling grid (1 .. GridLen).
GridLen == 2

(***************************************************************************)
(* Extended rational arithmetic (numpy float64 arithmetic, unrounded).     *)
(***************************************************************************)
Abs(i) == IF i < 0 THEN -i ELSE i

Sign(i) == IF i < 0 THEN -1 ELSE IF i = 0 THEN 0 ELSE 1

RECURSIVE GCD(_, _)
GCD(a, b) == IF b = 0 THEN a ELSE GCD(b, a % b)

\* n/d in lowest terms with a positive denominator; inf, -inf and nan for d = 0.
R(n, d) ==
    IF d = 0 THEN [n |-> Sign(n), d |-> 0]
    ELSE LET g == GCD(Abs(n), Abs(d))
         IN  [n |-> (Sign(d) * n) \div g, d |-> Abs(d) \div g]

NaN == [n |-> 0, d |-> 0]

Inf == [n |-> 1, d |-> 0]

IsFinite(a) == a.d # 0

IsZero(a) == a.d # 0 /\ a.n = 0

\* a * b; inf * 0 is nan, as in IEEE arithmetic.
RMul(a, b) == R(a.n * b.n, a.d * b.d)

\* a + b; inf + (-inf) is nan.
RAdd(a, b) ==
    IF IsFinite(a) /\ IsFinite(b) THEN R(a.n * b.d + b.n * a.d, a.d * b.d)
    ELSE IF a = NaN \/ b = NaN THEN NaN
    ELSE IF ~IsFinite(a) /\ ~IsFinite(b) THEN (IF a = b THEN a ELSE NaN)
    ELSE IF ~IsFinite(a) THEN a ELSE b

\* 1 / a for a numpy float64: a zero divisor gives inf (and a warning), no exception.
RInv(a) ==
    IF a = NaN THEN NaN
    ELSE IF ~IsFinite(a) THEN R(0, 1)
    ELSE IF a.n = 0 THEN Inf
    ELSE R(a.d, a.n)

RSub(a, b) == RAdd(a, RMul(R(-1, 1), b))

\* a <= b for finite a and b.
RLeq(a, b) == a.n * b.d <= b.n * a.d

\* numpy's elementwise product of two arrays of one length.
VMul(x, y) == [i \in 1..Len(x) |-> RMul(x[i], y[i])]

RECURSIVE VSumTo(_, _)
VSumTo(x, i) == IF i = 0 THEN R(0, 1) ELSE RAdd(VSumTo(x, i - 1), x[i])

\* np.sum of an array.
VSum(x) == VSumTo(x, Len(x))


(***************************************************************************)
(* Spectral power distributions.  An object is a record [shape, values];   *)
(* a shape is [start, end] in wavelength units with a step of one, and     *)
(* values[i] is the value at wavelength shape.start + i - 1.               *)
(***************************************************************************)
VARIABLES
    ACES_RICD,      \* the ACES relative-exposure response dataset
    heap,           \* the spectral objects: the caller's two and the clones
    pc,             \* position in spectral_to_aces_relative_exposure_values
    spd,            \* the local name spd: the object it is bound to
    illuminant,     \* the local name illuminant: the object it is bound to
    k_rgb,          \* the locals k_r, k_g, k_b
    E_rgb           \* the local array E_rgb; at pc = "done" the returned array

\* The colourspace datasets (colour/models/dataset).
VARIABLES
    colourspaces,   \* the RGB_Colourspace objects the dataset modules have bound
    call            \* the evaluation a user of the datasets has in progress

\* The extrapolation of a one-dimensional function (colour/algebra).
VARIABLES
    interpolator,   \* the LinearInterpolator1d object: its samples x and y
    extrapolator,   \* the Extrapolator1d object wrapping it
    evaluation      \* the call of the extrapolator in progress, and its result

\* Concurrent invocations of spectral_to_aces_relative_exposure_values on the
\* objects of heap and ACES_RICD.
VARIABLES
    threads,        \* per thread: its position in the function, the array returned
    frames          \* per invocation: the locals spd, illuminant, k_rgb, E_rgb

idtVars == <<ACES_RICD, heap, pc, spd, illuminant, k_rgb, E_rgb>>

csVars == <<colourspaces, call>>

exVars == <<interpolator, extrapolator, evaluation>>

mtVars == <<threads, frames>>

vars == <<ACES_RICD, heap, pc, spd, illuminant, k_rgb, E_rgb, colourspaces, call,
          interpolator, extrapolator, evaluation, threads, frames>>

\* The names the dataset modules give their colourspaces.
CSNames == {"Rec. 709", "Adobe Wide Gamut RGB"}

NoColourspace == [name |-> "unbound"]

NoCall == [op |-> "none"]

\* No dataset module imported yet, no evaluation in progress.
CSIdle ==
    /\ colourspaces = [n \in CSNames |-> NoColourspace]
    /\ call = NoCall

NoInterpolator == [x |-> <<>>, y |-> <<>>]

NoExtrapolator == [method |-> "unbound"]

NoEvaluation == [op |-> "none"]

\* No interpolator built, no extrapolator wrapping it, nothing being evaluated.
EXIdle ==
    /\ interpolator = NoInterpolator
    /\ extrapolator = NoExtrapolator
    /\ evaluation = NoEvaluation

\* Number of threads that call spectral_to_aces_relative_exposure_values.
NThreads == 2

Threads == 1..NThreads

NoFrame == [spd |-> "none", illuminant |-> "none", k_rgb |-> <<>>, E_rgb |-> <<>>]

\* No thread has called the function.
MTIdle ==
    /\ threads = [t \in Threads |-> [pc |-> "idle", result |-> <<>>]]
    /\ frames = [t \in Threads |-> NoFrame]

Shape(a, b) == [start |-> a, end |-> b]

ShapeLen(s) == s.end - s.start + 1

NoObject == [shape |-> Shape(0, -1), values |-> <<>>]

Refs == {"spd_arg", "illuminant_arg", "spd_clone", "illuminant_clone"}

\* The shape of the response dataset.
RICDShape == Shape(1, GridLen)

\* SpectralPowerDistribution.clone: a new object with the same content.
Clone(obj) == [shape |-> obj.shape, values |-> obj.values]

\* SpectralPowerDistribution.align(shape), in place on obj: the values on the
\* new grid, the edge values held constant outside the measured domain.
Align(obj, shape) ==
    [shape  |-> shape,
     values |-> [i \in 1..ShapeLen(shape) |->
                   LET w == shape.start + i - 1
                   IN  IF w < obj.shape.start THEN obj.values[1]
                       ELSE IF w > obj.shape.end THEN obj.values[Len(obj.values)]
                       ELSE obj.values[w - obj.shape.start + 1]]]

\* Lines 88-89 and 91-92 without the clone: align called on the caller's object.
AlignInPlace(h, ref, cloneRef, shape) ==
    IF h[ref].shape # shape
    THEN [heap |-> [h EXCEPT ![ref] = Align(h[ref], shape)], ref |-> ref]
    ELSE [heap |-> h, ref |-> ref]

\* Lines 88-89 and 91-92: if x.shape != ACES_RICD.shape: x = x.clone().align(shape).
\* Gives the heap after the statement and the object the local name is bound to.
AlignedClone(h, ref, cloneRef, shape) ==
    IF h[ref].shape # shape
    THEN [heap |-> [h EXCEPT ![cloneRef] = Align(Clone(h[ref]), shape)],
          ref  |-> cloneRef]
    ELSE [heap |-> h, ref |-> ref]

\* FLARE_PERCENTAGE = 0.00500
FLARE_PERCENTAGE == R(5, 1000)

\* A flare factor that subtracts the flare fraction instead of adding it.
S_FLARE_FACTOR_Minus == RMul(R(18, 100), RInv(RSub(R(18, 100), FLARE_PERCENTAGE)))

\* S_FLARE_FACTOR = 0.18000 / (0.18000 + FLARE_PERCENTAGE)
S_FLARE_FACTOR == RMul(R(18, 100), RInv(RAdd(R(18, 100), FLARE_PERCENTAGE)))

\* A normalisation that leaves the illuminant out: 1 / np.sum(y).
k_NoIlluminant(x, y) == RInv(VSum(y))

\* Line 101: k = lambda x, y: 1 / np.sum(x * y)
k(x, y) == RInv(VSum(VMul(x, y)))

\* The three response curves as arrays (lines 97-99), in the order r, g, b.
Bars(ricd) == <<ricd.r_bar.values, ricd.g_bar.values, ricd.b_bar.values>>

\* No normalisation: every factor is 1.
ComputeK_Unnormalised(ill, bars) == [c \in 1..3 |-> R(1, 1)]

\* Normalisation that uses the red response curve for every channel.
ComputeK_RedOnly(ill, bars) == [c \in 1..3 |-> k(ill, bars[1])]

\* Lines 103-105: k_r, k_g, k_b.
ComputeK(ill, bars) == [c \in 1..3 |-> k(ill, bars[c])]

\* Weighted sums that leave the illuminant out: k_c * np.sum(spd * c_bar).
ComputeE_NoIlluminant(kk, ill, s, bars) ==
    [c \in 1..3 |-> RMul(kk[c], VSum(VMul(s, bars[c])))]

\* Lines 107-111: E_rgb = [k_c * np.sum(illuminant * spd * c_bar)].
ComputeE(kk, ill, s, bars) ==
    [c \in 1..3 |-> RMul(kk[c], VSum(VMul(VMul(ill, s), bars[c])))]

\* Line 114: E_rgb += FLARE_PERCENTAGE
FlareAdd(E) == [c \in 1..3 |-> RAdd(E[c], FLARE_PERCENTAGE)]

\* Line 115: E_rgb *= S_FLARE_FACTOR
FlareMul(E) == [c \in 1..3 |-> RMul(E[c], S_FLARE_FACTOR)]

(***************************************************************************)
(* The inputs the model draws.                                             *)
(***************************************************************************)
\* Values of a sample spectrum: mid-grey 0.18 and full reflectance.
SpdLevels == {R(18, 100), R(1, 1)}

\* Values of an illuminant spectrum: none, the mid-grey level, unit power.
IlluminantLevels == {R(0, 1), R(18, 100), R(1, 1)}

\* Shapes of the caller's objects: the dataset's, or one that starts later.
InputShapes == {RICDShape, Shape(2, GridLen)}

Objects(levels) ==
    UNION {{[shape |-> s, values |-> v] : v \in [1..ShapeLen(s) -> levels]} :
           s \in InputShapes}

\* Response curves over the grid: an impulse at the first wavelength, a ramp, flat.
Curves ==
    {[i \in 1..GridLen |-> IF i = 1 THEN R(1, 1) ELSE R(0, 1)],
     [i \in 1..GridLen |-> R(i, 1)],
     [i \in 1..GridLen |-> R(1, 1)]}

\* The grids a channel of the dataset may be sampled on: the dataset's own,
\* or one shifted by a wavelength step.
ChannelShapes == {RICDShape, Shape(2, GridLen + 1)}

Datasets ==
    {[shape |-> RICDShape,
      r_bar |-> [shape |-> RICDShape, values |-> r],
      g_bar |-> [shape |-> gs, values |-> g],
      b_bar |-> [shape |-> RICDShape, values |-> b]] :
     r \in Curves, g \in Curves, b \in Curves, gs \in ChannelShapes}

(***************************************************************************)
(* spectral_to_aces_relative_exposure_values(spd, illuminant)              *)
(***************************************************************************)
InitIDT ==
    /\ CSIdle
    /\ EXIdle
    /\ MTIdle
    /\ ACES_RICD \in Datasets
    /\ heap = [r \in Refs |-> NoObject]
    /\ pc = "idle"
    /\ spd = "none"
    /\ illuminant = "none"
    /\ k_rgb = <<>>
    /\ E_rgb = <<>>

\* The call: the parameters are bound to the caller's objects.
Call ==
    /\ pc = "idle"
    /\ \E s \in Objects(SpdLevels), i \in Objects(IlluminantLevels) :
         heap' = [r \in Refs |-> IF r = "spd_arg" THEN s
                                 ELSE IF r = "illuminant_arg" THEN i
                                 ELSE NoObject]
    /\ spd' = "spd_arg"
    /\ illuminant' = "illuminant_arg"
    /\ k_rgb' = <<>>
    /\ E_rgb' = <<>>
    /\ pc' = "align_spd"
    /\ UNCHANGED <<ACES_RICD, colourspaces, call, exVars, mtVars>>

\* Lines 87-89.
AlignSpd ==
    /\ pc = "align_spd"
    /\ LET a == AlignedClone(heap, spd, "spd_clone", ACES_RICD.shape)
       IN  heap' = a.heap /\ spd' = a.ref
    /\ pc' = "align_illuminant"
    /\ UNCHANGED <<ACES_RICD, illuminant, k_rgb, E_rgb, colourspaces, call, exVars, mtVars>>

\* Lines 91-92.
AlignIlluminant ==
    /\ pc = "align_illuminant"
    /\ LET a == AlignedClone(heap, illuminant, "illuminant_clone", ACES_RICD.shape)
       IN  heap' = a.heap /\ illuminant' = a.ref
    /\ pc' = "k"
    /\ UNCHANGED <<ACES_RICD, spd, k_rgb, E_rgb, colourspaces, call, exVars, mtVars>>

\* Lines 94-105: the arrays are read and the normalisation factors computed.
Normalise ==
    /\ pc = "k"
    /\ k_rgb' = ComputeK(heap[illuminant].values, Bars(ACES_RICD))
    /\ pc' = "E"
    /\ UNCHANGED <<ACES_RICD, heap, spd, illuminant, E_rgb, colourspaces, call, exVars, mtVars>>

\* Lines 107-111.
Integrate ==
    /\ pc = "E"
    /\ E_rgb' = ComputeE(k_rgb, heap[illuminant].values, heap[spd].values,
                         Bars(ACES_RICD))
    /\ pc' = "flare_add"
    /\ UNCHANGED <<ACES_RICD, heap, spd, illuminant, k_rgb, colourspaces, call, exVars, mtVars>>

\* Line 114.
AddFlare ==
    /\ pc = "flare_add"
    /\ E_rgb' = FlareAdd(E_rgb)
    /\ pc' = "flare_mul"
    /\ UNCHANGED <<ACES_RICD, heap, spd, illuminant, k_rgb, colourspaces, call, exVars, mtVars>>

\* Lines 115-117: the rescaling, and the return of E_rgb.
ScaleFlareAndReturn ==
    /\ pc = "flare_mul"
    /\ E_rgb' = FlareMul(E_rgb)
    /\ pc' = "done"
    /\ UNCHANGED <<ACES_RICD, heap, spd, illuminant, k_rgb, colourspaces, call, exVars, mtVars>>

\* The caller takes the returned array; the frame and its clones are gone, and
\* the function can be called again.
CallerContinues ==
    /\ pc = "done"
    /\ heap' = [r \in Refs |-> NoObject]
    /\ spd' = "none"
    /\ illuminant' = "none"
    /\ k_rgb' = <<>>
    /\ E_rgb' = <<>>
    /\ pc' = "idle"
    /\ UNCHANGED <<ACES_RICD, colourspaces, call, exVars, mtVars>>

NextIDT ==
    \/ Call
    \/ AlignSpd
    \/ AlignIlluminant
    \/ Normalise
    \/ Integrate
    \/ AddFlare
    \/ ScaleFlareAndReturn
    \/ CallerContinues

SpecIDT == InitIDT /\ [][NextIDT]_vars

(***************************************************************************)
(* Properties of spectral_to_aces_relative_exposure_values.                *)
(***************************************************************************)
Channels == 1..3

\* The caller's arrays, and the arrays the sums are taken over.
CallerSpd == heap["spd_arg"]

CallerIlluminant == heap["illuminant_arg"]

OnGrid(obj) == obj.shape = ACES_RICD.shape

\* The sum over the grid of illuminant * response curve of channel c.
NormSum(c) == VSum(VMul(heap[illuminant].values, Bars(ACES_RICD)[c]))

\* The sum over the grid of illuminant * spd * response curve of channel c.
WeightSum(c) ==
    VSum(VMul(VMul(heap[illuminant].values, heap[spd].values), Bars(ACES_RICD)[c]))

NormSumsNonZero == \A c \in Channels : IsFinite(NormSum(c)) /\ ~IsZero(NormSum(c))

\* The exposure of channel c before the flare compensation.
PreFlare(c) == RMul(RInv(NormSum(c)), WeightSum(c))

\* (e + 0.005) * 0.18 / 0.185, written out.
Flared(e) == RMul(RAdd(e, R(5, 1000)), R(180, 185))

IsFlat(values, v) == \A i \in 1..Len(values) : values[i] = v

\* C1: with spd and illuminant already on the ACES_RICD grid, each channel's
\* pre-flare exposure is E_c = k_c * sum(illuminant * spd * c_bar) with
\* k_c = 1 / sum(illuminant * c_bar), the channel's own response curve and the
\* illuminant of this call: so E_c * sum(illuminant * c_bar) is the weighted sum
\* whenever the normalisation sum is not zero.
C1_PerChannelExposure ==
    (pc = "flare_add" /\ OnGrid(CallerSpd) /\ OnGrid(CallerIlluminant)) =>
        \A c \in Channels :
            LET bar == Bars(ACES_RICD)[c]
                n   == VSum(VMul(CallerIlluminant.values, bar))
                w   == VSum(VMul(VMul(CallerIlluminant.values, CallerSpd.values), bar))
            IN  /\ k_rgb[c] = RInv(n)
                /\ E_rgb[c] = RMul(RInv(n), w)
                /\ (~IsZero(n) => RMul(E_rgb[c], n) = w)

C1_Witness ==
    /\ pc = "flare_add"
    /\ OnGrid(CallerSpd) /\ OnGrid(CallerIlluminant)
    /\ NormSumsNonZero
    /\ k_rgb[1] # k_rgb[2] /\ k_rgb[2] # k_rgb[3] /\ k_rgb[1] # k_rgb[3]
    /\ E_rgb[1] # E_rgb[2] /\ E_rgb[2] # E_rgb[3]

\* C2: the flare compensation first adds 0.005 to each channel and then
\* multiplies the three channels by the one factor S = 0.18 / 0.185: every
\* returned channel is (E_c + 0.005) * S, and a channel whose pre-flare exposure
\* is mid-grey 0.18 is returned as 0.18.
C2_FlareAddThenScale ==
    /\ pc = "flare_mul" =>
           \A c \in Channels : E_rgb[c] = RAdd(PreFlare(c), R(5, 1000))
    /\ pc = "done" =>
           \A c \in Channels :
               /\ E_rgb[c] = Flared(PreFlare(c))
               /\ (PreFlare(c) = R(18, 100) => E_rgb[c] = R(18, 100))

C2_Witness ==
    /\ pc = "done"
    /\ \E c, d \in Channels :
          /\ PreFlare(c) = R(18, 100) /\ E_rgb[c] = R(18, 100)
          /\ IsFinite(PreFlare(d)) /\ PreFlare(d) # R(18, 100)

\* C3: a flat spectral sample of value v, under any illuminant whose
\* normalisation sums are not zero, is returned as (v + 0.005) * S in all three
\* channels, whatever the response curves.
C3_FlatSample ==
    \A v \in SpdLevels :
        (pc = "done" /\ IsFlat(CallerSpd.values, v) /\ NormSumsNonZero) =>
            \A c \in Channels : E_rgb[c] = Flared(v)

C3_Witness ==
    /\ pc = "done"
    /\ \E v \in SpdLevels : IsFlat(CallerSpd.values, v)
    /\ NormSumsNonZero
    /\ ~OnGrid(CallerSpd)
    /\ \E i, j \in 1..Len(CallerIlluminant.values) :
          CallerIlluminant.values[i] # CallerIlluminant.values[j]
    /\ Cardinality({Bars(ACES_RICD)[c] : c \in Channels}) = 3
    /\ E_rgb[1] = E_rgb[2] /\ E_rgb[2] = E_rgb[3]

\* The spectrum given as spd and as illuminant, on the grid of the dataset.
SelfIlluminated ==
    /\ OnGrid(CallerSpd) /\ OnGrid(CallerIlluminant)
    /\ CallerSpd.values = CallerIlluminant.values

\* Two finite values no further apart than one hundredth.
NearEqual(a, b) ==
    /\ IsFinite(a) /\ IsFinite(b)
    /\ RLeq(RSub(a, b), R(1, 100)) /\ RLeq(RSub(b, a), R(1, 100))

\* C4, as claimed: with spd equal to the illuminant the three returned
\* exposures are near-equal, for any such spectrum and any response curves.
C4_Original_NearEqualChannels ==
    (pc = "done" /\ SelfIlluminated /\ NormSumsNonZero) =>
        \A c, d \in Channels : NearEqual(E_rgb[c], E_rgb[d])

RECURSIVE MinTo(_, _)
MinTo(x, i) ==
    IF i = 1 THEN x[1]
    ELSE LET m == MinTo(x, i - 1) IN IF RLeq(x[i], m) THEN x[i] ELSE m

RECURSIVE MaxTo(_, _)
MaxTo(x, i) ==
    IF i = 1 THEN x[1]
    ELSE LET m == MaxTo(x, i - 1) IN IF RLeq(m, x[i]) THEN x[i] ELSE m

\* C4, amended: with spd equal to the illuminant (non-negative, as are the
\* response curves) and no normalisation sum zero, every returned channel lies
\* between the flare-corrected least and greatest value of the spectrum; the
\* channels are equal when the spectrum is flat and may differ by the
\* spectrum's spread otherwise.
C4_ChannelsWithinSpectrumRange ==
    (pc = "done" /\ SelfIlluminated /\ NormSumsNonZero) =>
        LET x  == CallerSpd.values
            lo == Flared(MinTo(x, Len(x)))
            hi == Flared(MaxTo(x, Len(x)))
        IN  /\ \A c \in Channels : RLeq(lo, E_rgb[c]) /\ RLeq(E_rgb[c], hi)
            /\ (lo = hi => \A c \in Channels : E_rgb[c] = lo)

C4_Witness ==
    /\ pc = "done" /\ SelfIlluminated /\ NormSumsNonZero
    /\ \E c, d \in Channels : ~NearEqual(E_rgb[c], E_rgb[d])

\* C5: the call never mutates the caller's spd or illuminant: no step of the
\* function changes either object; an input whose shape differs from the
\* dataset's is aligned as a clone and the sums use the clone's values; an input
\* whose shape matches is used as it is.
C5_BindingInv ==
    pc \in {"k", "E", "flare_add", "flare_mul", "done"} =>
        /\ IF OnGrid(CallerSpd) THEN spd = "spd_arg"
           ELSE /\ spd = "spd_clone"
                /\ heap[spd] = Align(CallerSpd, ACES_RICD.shape)
        /\ IF OnGrid(CallerIlluminant) THEN illuminant = "illuminant_arg"
           ELSE /\ illuminant = "illuminant_clone"
                /\ heap[illuminant] = Align(CallerIlluminant, ACES_RICD.shape)
        /\ OnGrid(heap[spd]) /\ OnGrid(heap[illuminant])

C5_CallerObjectsUnchanged ==
    /\ []C5_BindingInv
    /\ [][pc \notin {"idle", "done"} =>
            /\ heap'["spd_arg"] = heap["spd_arg"]
            /\ heap'["illuminant_arg"] = heap["illuminant_arg"]]_idtVars

C5_Witness ==
    /\ pc = "done"
    /\ spd = "spd_clone" /\ illuminant = "illuminant_clone"
    /\ ~OnGrid(CallerSpd) /\ ~OnGrid(CallerIlluminant)
    /\ heap["spd_clone"].values # CallerSpd.values

\* C6: if the sum of illuminant * response curve is exactly zero for some
\* channel the call fails with a DivideByZeroError and never returns a result
\* vector.
C6_NoResultOnZeroNormalisation ==
    pc = "done" => \A c \in Channels : ~IsZero(NormSum(c))

\* The three response curves are sampled on one common wavelength grid.
SharedGrid(ricd) ==
    /\ ricd.r_bar.shape = ricd.g_bar.shape
    /\ ricd.g_bar.shape = ricd.b_bar.shape

\* C7: the call fails with a ShapeMismatchError when the three response
\* functions do not share one wavelength grid: the weighted sums are never
\* computed over response curves sampled on different grids.
C7_NoSumsOverMismatchedGrids ==
    pc \in {"flare_add", "flare_mul", "done"} => SharedGrid(ACES_RICD)

(***************************************************************************)
(* Arithmetic for the colourspace datasets.  The matrices carry eight      *)
(* decimals and the transfer functions raise to the powers 0.45 and        *)
(* 1 / 0.45, so the products leave the range of machine integers: a        *)
(* natural number is kept as its sequence of limbs in base 10^4, least     *)
(* significant first and without leading zero limbs, an integer as         *)
(* [s, m] with sign s and magnitude m.                                     *)
(***************************************************************************)
Base == 10^4

RECURSIVE NFromInt(_)
NFromInt(n) == IF n = 0 THEN <<>> ELSE <<n % Base>> \o NFromInt(n \div Base)

RECURSIVE NStrip(_)
NStrip(a) ==
    IF a = <<>> THEN a
    ELSE IF a[Len(a)] = 0 THEN NStrip(SubSeq(a, 1, Len(a) - 1)) ELSE a

Limb(a, i) == IF i >= 1 /\ i <= Len(a) THEN a[i] ELSE 0

\* Carries propagated through limbs that may exceed the base.
RECURSIVE NCarry(_, _, _)
NCarry(c, i, carry) ==
    IF i > Len(c)
    THEN (IF carry = 0 THEN <<>> ELSE <<carry % Base>> \o NCarry(c, i, carry \div Base))
    ELSE LET t == c[i] + carry
         IN  <<t % Base>> \o NCarry(c, i + 1, t \div Base)

NAdd(a, b) ==
    LET n == IF Len(a) > Len(b) THEN Len(a) ELSE Len(b)
    IN  NCarry([i \in 1..n |-> Limb(a, i) + Limb(b, i)], 1, 0)

RECURSIVE NCmpFrom(_, _, _)
NCmpFrom(a, b, i) ==
    IF i = 0 THEN 0
    ELSE IF a[i] < b[i] THEN -1
    ELSE IF a[i] > b[i] THEN 1
    ELSE NCmpFrom(a, b, i - 1)

\* -1, 0 or 1 as a < b, a = b or a > b.
NCmp(a, b) ==
    IF Len(a) < Len(b) THEN -1
    ELSE IF Len(a) > Len(b) THEN 1
    ELSE NCmpFrom(a, b, Len(a))

RECURSIVE NBorrow(_, _, _, _)
NBorrow(a, b, i, borrow) ==
    IF i > Len(a) THEN <<>>
    ELSE LET t == a[i] - Limb(b, i) - borrow
         IN  IF t < 0 THEN <<t + Base>> \o NBorrow(a, b, i + 1, 1)
             ELSE <<t>> \o NBorrow(a, b, i + 1, 0)

\* a - b for a >= b.
NSub(a, b) == NStrip(NBorrow(a, b, 1, 0))

RECURSIVE NConv(_, _, _, _)
NConv(a, b, kk, i) ==
    IF i > Len(a) \/ i > kk THEN 0
    ELSE a[i] * Limb(b, kk - i + 1) + NConv(a, b, kk, i + 1)

NMul(a, b) ==
    IF a = <<>> \/ b = <<>> THEN <<>>
    ELSE NCarry([kk \in 1..(Len(a) + Len(b) - 1) |-> NConv(a, b, kk, 1)], 1, 0)

RECURSIVE NPow(_, _)
NPow(a, e) ==
    IF e = 0 THEN <<1>>
    ELSE LET h == NPow(a, e \div 2)
             q == NMul(h, h)
         IN  IF e % 2 = 1 THEN NMul(q, a) ELSE q

(***************************************************************************)
(* Signal values of the transfer functions are fixed point numbers: the    *)
(* integer x stands for x / Scale.  Every operation is exact up to one     *)
(* unit (it rounds down).                                                  *)
(***************************************************************************)
Scale == 10^4

\* The decimal n / d as a signal value.
Fix(n, d) == (n * Scale) \div d

\* x * (n / d).
MulRat(x, n, d) == (x * n) \div d

\* The greatest y in lo .. hi - 1 with y^den * unit <= target, where lo
\* satisfies the inequality and hi does not.
RECURSIVE PowBisect(_, _, _, _, _)
PowBisect(lo, hi, den, unit, target) ==
    IF hi - lo <= 1 THEN lo
    ELSE LET mid == (lo + hi) \div 2
         IN  IF NCmp(NMul(NPow(NFromInt(mid), den), unit), target) <= 0
             THEN PowBisect(mid, hi, den, unit, target)
             ELSE PowBisect(lo, mid, den, unit, target)

\* x ** (num / den) for 0 <= x <= 1: the greatest signal value not above it.
\* (y / Scale)^den <= (x / Scale)^num is y^den * Scale^num <= x^num * Scale^den,
\* with the common power of Scale cancelled.
FixPow(x, num, den) ==
    LET S      == NFromInt(Scale)
        unit   == IF num > den THEN NPow(S, num - den) ELSE <<1>>
        target == IF den > num THEN NMul(NPow(NFromInt(x), num), NPow(S, den - num))
                  ELSE NPow(NFromInt(x), num)
    IN  PowBisect(0, Scale + 1, den, unit, target)

(***************************************************************************)
(* Integers and 3x3 matrices of rationals with a common denominator.       *)
(***************************************************************************)
Z(n) == [s |-> Sign(n), m |-> NFromInt(Abs(n))]

ZNeg(a) == [s |-> -a.s, m |-> a.m]

ZMul(a, b) == [s |-> a.s * b.s, m |-> NMul(a.m, b.m)]

ZAdd(a, b) ==
    IF a.s = 0 THEN b
    ELSE IF b.s = 0 THEN a
    ELSE IF a.s = b.s THEN [s |-> a.s, m |-> NAdd(a.m, b.m)]
    ELSE LET c == NCmp(a.m, b.m)
         IN  IF c = 0 THEN Z(0)
             ELSE IF c > 0 THEN [s |-> a.s, m |-> NSub(a.m, b.m)]
             ELSE [s |-> b.s, m |-> NSub(b.m, a.m)]

ZSub(a, b) == ZAdd(a, ZNeg(b))

ZAbs(a) == [s |-> a.s * a.s, m |-> a.m]

\* a <= b
ZLeq(a, b) == ZSub(a, b).s <= 0

\* The matrix of the decimals rows[i][j] / den.
Mat(rows, den) ==
    [num |-> [i \in 1..3 |-> [j \in 1..3 |-> Z(rows[i][j])]], den |-> Z(den)]

\* The cofactor of entry (i, j) of an integer matrix.
Cofactor(N, i, j) ==
    LET r1 == IF i = 1 THEN 2 ELSE 1
        r2 == IF i = 3 THEN 2 ELSE 3
        c1 == IF j = 1 THEN 2 ELSE 1
        c2 == IF j = 3 THEN 2 ELSE 3
        minor == ZSub(ZMul(N[r1][c1], N[r2][c2]), ZMul(N[r1][c2], N[r2][c1]))
    IN  IF (i + j) % 2 = 0 THEN minor ELSE ZNeg(minor)

Det3(N) ==
    ZAdd(ZAdd(ZMul(N[1][1], Cofactor(N, 1, 1)), ZMul(N[1][2], Cofactor(N, 1, 2))),
         ZMul(N[1][3], Cofactor(N, 1, 3)))

\* np.linalg.inv of a non-singular matrix: (N / d)^-1 = d * adj(N) / det(N).
MatInv(M) ==
    LET det == Det3(M.num)
        sgn == Z(det.s)
    IN  [num |-> [i \in 1..3 |-> [j \in 1..3 |->
                    ZMul(sgn, ZMul(M.den, Cofactor(M.num, j, i)))]],
         den |-> ZAbs(det)]

\* np.dot of two matrices.
MatMul(A, B) ==
    [num |-> [i \in 1..3 |-> [j \in 1..3 |->
                ZAdd(ZAdd(ZMul(A.num[i][1], B.num[1][j]), ZMul(A.num[i][2], B.num[2][j])),
                     ZMul(A.num[i][3], B.num[3][j]))]],
     den |-> ZMul(A.den, B.den)]

\* np.dot of a matrix and a vector [num, den].
MatVec(A, w) ==
    [num |-> [i \in 1..3 |->
                ZAdd(ZAdd(ZMul(A.num[i][1], w.num[1]), ZMul(A.num[i][2], w.num[2])),
                     ZMul(A.num[i][3], w.num[3]))],
     den |-> ZMul(A.den, w.den)]

(***************************************************************************)
(* The colourspace datasets (colour/models/dataset/rec_709.py and          *)
(* adobe_wide_gamut_rgb.py).  A set of primaries is [xy, den] and a        *)
(* whitepoint [x, y, den]: the chromaticity coordinates are xy / den.      *)
(***************************************************************************)
\* Number of steps the interval [0, 1] of signal values is sampled in.
Samples == 100

\* CIE D65 of the 2 degree observer: the chromaticity of XYZ (0.95047, 1.0, 1.08883).
ILLUMINANT_D65 == [x |-> 95047, y |-> 100000, den |-> 303930]

\* CIE D50 of the 2 degree observer: chromaticity (0.3457, 0.3585).
ILLUMINANT_D50 == [x |-> 3457, y |-> 3585, den |-> 10000]

\* xy_to_XYZ: the tristimulus values (x / y, 1, (1 - x - y) / y) of a chromaticity.
xy_to_XYZ(w) == [num |-> <<Z(w.x), Z(w.y), Z(w.den - w.x - w.y)>>, den |-> Z(w.y)]

\* The primaries lifted to XYZ directions: column c is (x, y, 1 - x - y) of primary c.
PrimaryMatrix(p) ==
    Mat(<<[c \in 1..3 |-> p.xy[c][1]],
          [c \in 1..3 |-> p.xy[c][2]],
          [c \in 1..3 |-> p.den - p.xy[c][1] - p.xy[c][2]]>>, p.den)

\* normalised_primary_matrix(primaries, whitepoint): the columns of the primary
\* matrix scaled by inv(P) . W, so that (1, 1, 1) maps to the whitepoint.
normalised_primary_matrix(primaries, whitepoint) ==
    LET P == PrimaryMatrix(primaries)
        coefficients == MatVec(MatInv(P), xy_to_XYZ(whitepoint))
    IN  [num |-> [i \in 1..3 |-> [j \in 1..3 |-> ZMul(P.num[i][j], coefficients.num[j])]],
         den |-> ZMul(P.den, coefficients.den)]

\* RGB_Colourspace(name, primaries, whitepoint, to_XYZ, to_RGB,
\*                 transfer_function, inverse_transfer_function)
RGB_Colourspace(name, primaries, whitepoint, to_XYZ, to_RGB, tf, itf) ==
    [name |-> name, primaries |-> primaries, whitepoint |-> whitepoint,
     to_XYZ |-> to_XYZ, to_RGB |-> to_RGB,
     transfer_function |-> tf, inverse_transfer_function |-> itf]

REC_709_PRIMARIES ==
    [xy |-> <<<<6400, 3300>>, <<3000, 6000>>, <<1500, 600>>>>, den |-> 10000]

REC_709_WHITEPOINT == ILLUMINANT_D65

\* The matrix with two digits of its first entry transposed.
REC_709_TO_XYZ_MATRIX_Typo ==
    Mat(<<<<42138656, 35759149, 18045049>>,
          <<21263682, 71518298, 7218020>>,
          <<1933062, 11919716, 95037259>>>>, 10^8)

REC_709_TO_XYZ_MATRIX ==
    Mat(<<<<41238656, 35759149, 18045049>>,
          <<21263682, 71518298, 7218020>>,
          <<1933062, 11919716, 95037259>>>>, 10^8)

\* The inverse taken from a table of four decimals instead of being computed.
XYZ_TO_REC_709_MATRIX_FromTable ==
    Mat(<<<<32406, -15372, -4986>>,
          <<-9689, 18758, 415>>,
          <<557, -2040, 10570>>>>, 10^4)

XYZ_TO_REC_709_MATRIX == MatInv(REC_709_TO_XYZ_MATRIX)

\* The condition of the lambda's conditional expression: x < 0.018.
REC_709_TRANSFER_FUNCTION_IsLinear(x) == x < Fix(18, 1000)

\* The linear segment ends at 0.018 of the linear value; x ** 0.45 is x^(9/20).
REC_709_TRANSFER_FUNCTION(x) ==
    IF REC_709_TRANSFER_FUNCTION_IsLinear(x) THEN MulRat(x, 45, 10)
    ELSE MulRat(FixPow(x, 9, 20), 1099, 1000) - Fix(99, 1000)

\* The condition of the inverse's conditional expression: the same x < 0.018,
\* applied to the encoded value.
REC_709_INVERSE_TRANSFER_FUNCTION_IsLinear(x) == x < Fix(18, 1000)

\* 1 / 0.45 is 20/9.
REC_709_INVERSE_TRANSFER_FUNCTION(x) ==
    IF REC_709_INVERSE_TRANSFER_FUNCTION_IsLinear(x) THEN MulRat(x, 10, 45)
    ELSE FixPow(MulRat(x + Fix(99, 1000), 1000, 1099), 20, 9)

REC_709_COLOURSPACE ==
    RGB_Colourspace("Rec. 709", REC_709_PRIMARIES, REC_709_WHITEPOINT,
                    REC_709_TO_XYZ_MATRIX, XYZ_TO_REC_709_MATRIX,
                    "REC_709_TRANSFER_FUNCTION", "REC_709_INVERSE_TRANSFER_FUNCTION")

ADOBE_WIDE_GAMUT_RGB_PRIMARIES ==
    [xy |-> <<<<7347, 2653>>, <<1152, 8264>>, <<1566, 177>>>>, den |-> 10000]

ADOBE_WIDE_GAMUT_RGB_WHITEPOINT == ILLUMINANT_D50

ADOBE_WIDE_GAMUT_RGB_TO_XYZ_MATRIX ==
    normalised_primary_matrix(ADOBE_WIDE_GAMUT_RGB_PRIMARIES,
                              ADOBE_WIDE_GAMUT_RGB_WHITEPOINT)

XYZ_TO_ADOBE_WIDE_GAMUT_RGB_MATRIX == MatInv(ADOBE_WIDE_GAMUT_RGB_TO_XYZ_MATRIX)

\* The transfer functions x ** (1 / (563 / 256)) and x ** (563 / 256) are bound
\* by name; the model does not evaluate them.
ADOBE_WIDE_GAMUT_RGB_COLOURSPACE ==
    RGB_Colourspace("Adobe Wide Gamut RGB", ADOBE_WIDE_GAMUT_RGB_PRIMARIES,
                    ADOBE_WIDE_GAMUT_RGB_WHITEPOINT,
                    ADOBE_WIDE_GAMUT_RGB_TO_XYZ_MATRIX,
                    XYZ_TO_ADOBE_WIDE_GAMUT_RGB_MATRIX,
                    "ADOBE_WIDE_GAMUT_RGB_TRANSFER_FUNCTION",
                    "ADOBE_WIDE_GAMUT_RGB_INVERSE_TRANSFER_FUNCTION")

\* The signal values v = i / Samples of [0, 1].
SampleValues == {Fix(i, Samples) : i \in 0..Samples}

\* The function a colourspace binds under the name f, applied to x.
ApplyFunction(f, x) ==
    IF f = "REC_709_TRANSFER_FUNCTION" THEN REC_709_TRANSFER_FUNCTION(x)
    ELSE REC_709_INVERSE_TRANSFER_FUNCTION(x)

AllLoaded == \A n \in CSNames : colourspaces[n] # NoColourspace

\* rec_709.py is imported: its statements run in order, the last binds the colourspace.
Load_rec_709 ==
    /\ colourspaces["Rec. 709"] = NoColourspace
    /\ colourspaces' = [colourspaces EXCEPT !["Rec. 709"] = REC_709_COLOURSPACE]
    /\ UNCHANGED <<call, idtVars, exVars, mtVars>>

\* adobe_wide_gamut_rgb.py is imported.
Load_adobe_wide_gamut_rgb ==
    /\ colourspaces["Adobe Wide Gamut RGB"] = NoColourspace
    /\ colourspaces' = [colourspaces EXCEPT
                          !["Adobe Wide Gamut RGB"] = ADOBE_WIDE_GAMUT_RGB_COLOURSPACE]
    /\ UNCHANGED <<call, idtVars, exVars, mtVars>>

\* A user applies one transfer function of the Rec. 709 colourspace to a value v.
ApplyTransfer ==
    /\ AllLoaded
    /\ call = NoCall
    /\ \E v \in SampleValues, first \in {"encode", "decode"} :
         LET cs == colourspaces["Rec. 709"]
             f  == IF first = "encode" THEN cs.transfer_function
                   ELSE cs.inverse_transfer_function
         IN  call' = [op |-> "applied", first |-> first, v |-> v,
                      mid |-> ApplyFunction(f, v)]
    /\ UNCHANGED <<colourspaces, idtVars, exVars, mtVars>>

\* The user applies the other function of the pair to the result.
ApplyBack ==
    /\ call.op = "applied"
    /\ LET cs == colourspaces["Rec. 709"]
           f  == IF call.first = "encode" THEN cs.inverse_transfer_function
                 ELSE cs.transfer_function
       IN  call' = [op |-> "round_trip", first |-> call.first, v |-> call.v,
                    mid |-> call.mid, out |-> ApplyFunction(f, call.mid)]
    /\ UNCHANGED <<colourspaces, idtVars, exVars, mtVars>>

\* A user derives the matrix of a colourspace from its primaries and whitepoint.
Derive ==
    /\ AllLoaded
    /\ call = NoCall
    /\ \E n \in CSNames :
         LET cs == colourspaces[n]
         IN  call' = [op |-> "normalised_primary_matrix", colourspace |-> n,
                      result |-> normalised_primary_matrix(cs.primaries, cs.whitepoint)]
    /\ UNCHANGED <<colourspaces, idtVars, exVars, mtVars>>

\* The evaluation is over.
CallReturns ==
    /\ call.op \in {"round_trip", "normalised_primary_matrix"}
    /\ call' = NoCall
    /\ UNCHANGED <<colourspaces, idtVars, exVars, mtVars>>

\* The spectral function at rest, with a dataset of flat response curves.
IDTIdle ==
    /\ ACES_RICD = [shape |-> RICDShape,
                    r_bar |-> [shape |-> RICDShape, values |-> [i \in 1..GridLen |-> R(1, 1)]],
                    g_bar |-> [shape |-> RICDShape, values |-> [i \in 1..GridLen |-> R(1, 1)]],
                    b_bar |-> [shape |-> RICDShape, values |-> [i \in 1..GridLen |-> R(1, 1)]]]
    /\ heap = [r \in Refs |-> NoObject]
    /\ pc = "idle"
    /\ spd = "none"
    /\ illuminant = "none"
    /\ k_rgb = <<>>
    /\ E_rgb = <<>>

InitCS == CSIdle /\ IDTIdle /\ EXIdle /\ MTIdle

NextCS ==
    \/ Load_rec_709
    \/ Load_adobe_wide_gamut_rgb
    \/ ApplyTransfer
    \/ ApplyBack
    \/ Derive
    \/ CallReturns

SpecCS == InitCS /\ [][NextCS]_vars

(***************************************************************************)
(* Properties of the colourspace datasets.                                 *)
(***************************************************************************)
\* The tolerance of a round trip in signal units: the claimed 1e-6 together
\* with the rounding of the fixed point operations, each exact to 1e-4.
RoundTripTol == Fix(1, 1000)

\* C8 (stated for the Rec. 709 pair, whose functions the model evaluates): for
\* every v in [0, 1] other than the breakpoint 0.018, decode(encode(v)) and
\* encode(decode(v)) equal v within the tolerance.
C8_RoundTrip ==
    (call.op = "round_trip" /\ call.v # Fix(18, 1000)) =>
        Abs(call.out - call.v) <= RoundTripTol

\* The product is the identity matrix: den on the diagonal of num, zero elsewhere.
IsIdentity(M) ==
    \A i, j \in 1..3 : M.num[i][j] = IF i = j THEN M.den ELSE Z(0)

\* C9: in every bundled colourspace the stored inverse matrix is the inverse
\* computed from that colourspace's own forward matrix, and forward * inverse
\* is the 3x3 identity.
C9_InverseOfOwnForward ==
    \A n \in CSNames :
        colourspaces[n] # NoColourspace =>
            /\ colourspaces[n].to_RGB = MatInv(colourspaces[n].to_XYZ)
            /\ IsIdentity(MatMul(colourspaces[n].to_XYZ, colourspaces[n].to_RGB))
            /\ IsIdentity(MatMul(colourspaces[n].to_RGB, colourspaces[n].to_XYZ))

C9_Witness ==
    /\ AllLoaded
    /\ colourspaces["Rec. 709"].to_XYZ = REC_709_TO_XYZ_MATRIX
    /\ colourspaces["Adobe Wide Gamut RGB"].to_XYZ # colourspaces["Rec. 709"].to_XYZ
    /\ colourspaces["Rec. 709"].to_RGB.den.s = 1
    /\ colourspaces["Adobe Wide Gamut RGB"].to_RGB.den.s = 1

\* Every entry of A is within tn / td of the entry of B.
WithinTol(A, B, tn, td) ==
    \A i, j \in 1..3 :
        ZLeq(ZMul(Z(td), ZAbs(ZSub(ZMul(A.num[i][j], B.den), ZMul(B.num[i][j], A.den)))),
             ZMul(Z(tn), ZMul(A.den, B.den)))

\* C10: the normalised primary matrix computed from the Rec. 709 primaries and
\* the D65 whitepoint is within 1e-4 per entry of the stored REC_709_TO_XYZ_MATRIX;
\* the stored Adobe Wide Gamut RGB matrix is the one derived from its primaries
\* and whitepoint.
C10_DerivedFromPrimaries ==
    call.op = "normalised_primary_matrix" =>
        IF call.colourspace = "Rec. 709"
        THEN WithinTol(call.result, colourspaces["Rec. 709"].to_XYZ, 1, 10000)
        ELSE call.result = colourspaces[call.colourspace].to_XYZ

C10_Witness ==
    /\ call.op = "normalised_primary_matrix"
    /\ call.colourspace = "Rec. 709"
    /\ colourspaces["Rec. 709"].primaries = REC_709_PRIMARIES
    /\ colourspaces["Rec. 709"].whitepoint = ILLUMINANT_D65
    /\ ~WithinTol(call.result, colourspaces["Rec. 709"].to_XYZ, 1, 100000)

\* C15: a linear value v that REC_709_TRANSFER_FUNCTION encodes with its
\* linear segment (x * 4.5) is decoded by REC_709_INVERSE_TRANSFER_FUNCTION with
\* its linear segment (x / 4.5), and a value encoded with the power segment is
\* decoded with the power segment.
C15_SameSegment ==
    (call.op \in {"applied", "round_trip"} /\ call.first = "encode") =>
        (REC_709_INVERSE_TRANSFER_FUNCTION_IsLinear(call.mid)
            <=> REC_709_TRANSFER_FUNCTION_IsLinear(call.v))

(***************************************************************************)
(* colour.algebra: LinearInterpolator1d and Extrapolator1d.  A number is   *)
(* an extended rational, as in the spectral integration.                   *)
(***************************************************************************)
\* The largest abscissa a caller evaluates at: the evaluation points are
\* 0, 1/2, 1, ..., QueryMax.
QueryMax == 9

\* a < b for finite a and b.
RLt(a, b) == a.n * b.d < b.n * a.d

\* An optional argument: left=None, or left=v.
None == [given |-> FALSE]

Some(v) == [given |-> TRUE, value |-> v]

\* LinearInterpolator1d(x, y): the object keeps its samples.
LinearInterpolator1d(x, y) == [x |-> x, y |-> y]

\* The segment of the samples that holds v: the last i with x[i] <= v, or the
\* last segment for v = b.
RECURSIVE SegmentOf(_, _, _)
SegmentOf(f, v, i) ==
    IF i >= Len(f.x) - 1 \/ RLt(v, f.x[i + 1]) THEN i ELSE SegmentOf(f, v, i + 1)

\* (y2 - y1) / (x2 - x1)
Slope(x1, y1, x2, y2) == RMul(RSub(y2, y1), RInv(RSub(x2, x1)))

\* LinearInterpolator1d.__call__(v) for a <= v <= b: the value on the chord of
\* the segment that holds v.
LinearInterpolator1d_call(f, v) ==
    LET i == SegmentOf(f, v, 1)
    IN  RAdd(f.y[i],
             RMul(RSub(v, f.x[i]), Slope(f.x[i], f.y[i], f.x[i + 1], f.y[i + 1])))

\* The boundary method used when none is given.
DefaultMethod == "Linear"

\* Extrapolator1d(interpolator, method, left, right): a DomainError for an
\* interpolator of fewer than two samples or of an inverted domain, else the
\* object, which refers to the interpolator and holds no copy of it.
Extrapolator1d(f, method, left, right) ==
    IF Len(f.x) < 2 \/ RLt(f.x[Len(f.x)], f.x[1])
    THEN [method |-> "DomainError"]
    ELSE [interpolator |-> "interpolator", method |-> method,
          left |-> left, right |-> right]

\* A test of the right boundary that takes b itself as outside the domain.
Above_Inclusive(f, v) == RLeq(f.x[Len(f.x)], v)

\* v < a, and v > b, for the domain [a, b] of the samples.
Below(f, v) == RLt(v, f.x[1])

Above(f, v) == RLt(f.x[Len(f.x)], v)

\* A right slope taken from the two leftmost samples.
RightSlope_Forward(f) == Slope(f.x[1], f.y[1], f.x[2], f.y[2])

\* The forward difference of the two leftmost samples, and the backward
\* difference of the two rightmost.
LeftSlope(f) == Slope(f.x[1], f.y[1], f.x[2], f.y[2])

RightSlope(f) ==
    LET n == Len(f.x)
    IN  Slope(f.x[n - 1], f.y[n - 1], f.x[n], f.y[n])

\* A left value that ignores the configured one.
LeftValue_Unconfigured(e, f) == f.y[1]

\* The values of the Constant method: the configured ones, by default the
\* first and the last sample value.
LeftValue(e, f) == IF e.left.given THEN e.left.value ELSE f.y[1]

RightValue(e, f) == IF e.right.given THEN e.right.value ELSE f.y[Len(f.x)]

\* Extrapolator1d evaluated at one number v, f being the wrapped interpolator.
Extrapolator1d_evaluate(e, f, v) ==
    IF Below(f, v)
    THEN IF e.method = "Linear"
         THEN RAdd(f.y[1], RMul(RSub(v, f.x[1]), LeftSlope(f)))
         ELSE LeftValue(e, f)
    ELSE IF Above(f, v)
    THEN IF e.method = "Linear"
         THEN RAdd(f.y[Len(f.x)], RMul(RSub(v, f.x[Len(f.x)]), RightSlope(f)))
         ELSE RightValue(e, f)
    ELSE LinearInterpolator1d_call(f, v)

\* A scalar argument or result, and an array one.
Scalar(v) == [kind |-> "scalar", value |-> v]

Array(vs) == [kind |-> "array", values |-> vs]

\* Extrapolator1d.__call__(x): the rule of one number applied to a scalar, or
\* to every element of an array in its order.
Extrapolator1d_call(e, f, x) ==
    IF x.kind = "scalar"
    THEN Scalar(Extrapolator1d_evaluate(e, f, x.value))
    ELSE Array([i \in 1..Len(x.values) |-> Extrapolator1d_evaluate(e, f, x.values[i])])

\* A sequence of integers as an array of numbers.
Floats(s) == [i \in 1..Len(s) |-> R(s[i], 1)]

\* tests_extrapolation.py: LinearInterpolator1d([5, 6, 7], [5, 6, 7]).
TestInterpolator == LinearInterpolator1d(Floats(<<5, 6, 7>>), Floats(<<5, 6, 7>>))

\* The interpolators the model builds: the one of the unit test, one with
\* uneven steps and slopes, a two-sample one, a single sample, and an
\* inverted domain.
Interpolators ==
    {TestInterpolator,
     LinearInterpolator1d(Floats(<<2, 3, 6>>), Floats(<<1, 4, 3>>)),
     LinearInterpolator1d(Floats(<<4, 5>>), Floats(<<2, 0>>)),
     LinearInterpolator1d(Floats(<<5>>), Floats(<<5>>)),
     LinearInterpolator1d(Floats(<<7, 6>>), Floats(<<1, 2>>))}

Methods == {DefaultMethod, "Constant"}

\* The fill values a caller configures: none, or a number.
FillValues == {None, Some(R(0, 1)), Some(R(9, 1))}

QueryPoints == {R(i, 2) : i \in 0..(2 * QueryMax)}

\* What a caller evaluates at: a scalar, or an array of up to two numbers.
Queries ==
    {Scalar(v) : v \in QueryPoints}
        \cup {Array(<<>>)}
        \cup {Array(<<v>>) : v \in QueryPoints}
        \cup {Array(<<v, w>>) : v \in QueryPoints, w \in QueryPoints}

\* interpolator = LinearInterpolator1d(x, y)
NewInterpolator ==
    /\ interpolator = NoInterpolator
    /\ interpolator' \in Interpolators
    /\ UNCHANGED <<extrapolator, evaluation, idtVars, csVars, mtVars>>

\* extrapolator = Extrapolator1d(interpolator, method, left, right)
NewExtrapolator ==
    /\ interpolator # NoInterpolator
    /\ extrapolator = NoExtrapolator
    /\ \E method \in Methods, left \in FillValues, right \in FillValues :
          extrapolator' = Extrapolator1d(interpolator, method, left, right)
    /\ UNCHANGED <<interpolator, evaluation, idtVars, csVars, mtVars>>

\* extrapolator(x)
Evaluate ==
    /\ extrapolator.method \in Methods
    /\ evaluation = NoEvaluation
    /\ \E x \in Queries :
          evaluation' = [op |-> "evaluated", x |-> x,
                         result |-> Extrapolator1d_call(extrapolator, interpolator, x)]
    /\ UNCHANGED <<interpolator, extrapolator, idtVars, csVars, mtVars>>

\* The caller takes the result.
EvaluationReturns ==
    /\ evaluation # NoEvaluation
    /\ evaluation' = NoEvaluation
    /\ UNCHANGED <<interpolator, extrapolator, idtVars, csVars, mtVars>>

InitEX == EXIdle /\ IDTIdle /\ CSIdle /\ MTIdle

NextEX ==
    \/ NewInterpolator
    \/ NewExtrapolator
    \/ Evaluate
    \/ EvaluationReturns

SpecEX == InitEX /\ [][NextEX]_vars

(***************************************************************************)
(* Properties of the extrapolator.                                         *)
(***************************************************************************)
Evaluated == evaluation # NoEvaluation

\* The numbers of an argument or a result, a scalar being one number.
Components(x) == IF x.kind = "scalar" THEN <<x.value>> ELSE x.values

\* The result has the kind of the argument and as many numbers, in its order.
SameForm(x, r) == r.kind = x.kind /\ Len(Components(r)) = Len(Components(x))

\* (v, r) lies on the line through (x0, y0) whose slope is that of the chord
\* from (x1, y1) to (x2, y2).
OnLineThrough(v, r, x0, y0, x1, y1, x2, y2) ==
    RMul(RSub(r, y0), RSub(x2, x1)) = RMul(RSub(v, x0), RSub(y2, y1))

\* C11: under the Linear method a number v left of the domain is evaluated to
\* f(a) + (v - a) * slope with the slope of the two leftmost samples, a number
\* right of it to f(b) + (v - b) * slope with the slope of the two rightmost;
\* an array is evaluated element by element to an array of the same length, a
\* scalar to a scalar; and the interpolator over {5:5, 6:6, 7:7} evaluates
\* [4, 8] to [4, 8] and the scalar 4 to the scalar 4.
C11_LinearExtrapolation ==
    (Evaluated /\ extrapolator.method = "Linear") =>
        LET f  == interpolator
            n  == Len(f.x)
            xs == Components(evaluation.x)
            rs == Components(evaluation.result)
        IN  /\ SameForm(evaluation.x, evaluation.result)
            /\ \A i \in 1..Len(xs) :
                  /\ RLt(xs[i], f.x[1]) =>
                        OnLineThrough(xs[i], rs[i], f.x[1], f.y[1],
                                      f.x[1], f.y[1], f.x[2], f.y[2])
                  /\ RLt(f.x[n], xs[i]) =>
                        OnLineThrough(xs[i], rs[i], f.x[n], f.y[n],
                                      f.x[n - 1], f.y[n - 1], f.x[n], f.y[n])
            /\ (f = TestInterpolator /\ evaluation.x = Array(Floats(<<4, 8>>))) =>
                  evaluation.result = Array(Floats(<<4, 8>>))
            /\ (f = TestInterpolator /\ evaluation.x = Scalar(R(4, 1))) =>
                  evaluation.result = Scalar(R(4, 1))

C11_Witness ==
    /\ Evaluated
    /\ extrapolator.method = "Linear"
    /\ interpolator = LinearInterpolator1d(Floats(<<2, 3, 6>>), Floats(<<1, 4, 3>>))
    /\ evaluation.x = Array(Floats(<<1, 9>>))
    /\ evaluation.result = Array(<<R(-2, 1), R(2, 1)>>)

\* a <= v <= b for the domain [a, b] of the wrapped interpolator.
InDomain(v) ==
    RLeq(interpolator.x[1], v) /\ RLeq(v, interpolator.x[Len(interpolator.x)])

C12_PassThroughInv ==
    Evaluated =>
        LET xs == Components(evaluation.x)
            rs == Components(evaluation.result)
        IN  \A i \in 1..Len(xs) :
                InDomain(xs[i]) => rs[i] = LinearInterpolator1d_call(interpolator, xs[i])

\* C12: under either method every number of the domain, a and b included, is
\* evaluated to exactly the value the wrapped interpolator gives it, and an
\* evaluation leaves the wrapped interpolator as it was.
C12_PassThrough ==
    /\ []C12_PassThroughInv
    /\ [][evaluation' # evaluation => interpolator' = interpolator]_vars

C12_Witness ==
    /\ Evaluated
    /\ extrapolator.method = "Constant"
    /\ extrapolator.left = Some(R(0, 1)) /\ extrapolator.right = Some(R(9, 1))
    /\ interpolator = LinearInterpolator1d(Floats(<<2, 3, 6>>), Floats(<<1, 4, 3>>))
    /\ evaluation.x = Array(<<R(9, 2), R(6, 1)>>)
    /\ evaluation.result = Array(<<R(7, 2), R(3, 1)>>)

\* C13: under the Constant method every number left of the domain is evaluated
\* to exactly the configured left value and every number right of it to exactly
\* the configured right value, the values not configured being f(a) and f(b).
C13_ConstantExtrapolation ==
    (Evaluated /\ extrapolator.method = "Constant") =>
        LET f     == interpolator
            xs    == Components(evaluation.x)
            rs    == Components(evaluation.result)
            left  == IF extrapolator.left.given THEN extrapolator.left.value
                     ELSE LinearInterpolator1d_call(f, f.x[1])
            right == IF extrapolator.right.given THEN extrapolator.right.value
                     ELSE LinearInterpolator1d_call(f, f.x[Len(f.x)])
        IN  \A i \in 1..Len(xs) :
                /\ RLt(xs[i], f.x[1]) => rs[i] = left
                /\ RLt(f.x[Len(f.x)], xs[i]) => rs[i] = right

C13_Witness ==
    /\ Evaluated
    /\ extrapolator.method = "Constant"
    /\ extrapolator.left = Some(R(9, 1)) /\ extrapolator.right = None
    /\ interpolator = LinearInterpolator1d(Floats(<<2, 3, 6>>), Floats(<<1, 4, 3>>))
    /\ evaluation.x = Array(Floats(<<0, 8>>))
    /\ evaluation.result = Array(Floats(<<9, 3>>))

(***************************************************************************)
(* Concurrent invocations of spectral_to_aces_relative_exposure_values.    *)
(* Every thread calls the function once with the same two objects; a step  *)
(* of a thread is a statement of the function, as in the sequential model; *)
(* the objects of heap and the dataset ACES_RICD are shared by the         *)
(* threads, the locals of an invocation live in its frame.                 *)
(***************************************************************************)
\* The object clone() creates in thread t: a new object per invocation.
CloneRef(name, t) == name \o "_" \o ToString(t)

MTRefs ==
    {"spd_arg", "illuminant_arg"}
        \cup {CloneRef("spd_clone", t) : t \in Threads}
        \cup {CloneRef("illuminant_clone", t) : t \in Threads}

\* Locals kept in one place for all invocations, as module globals would be.
FrameOf_Shared(t) == 1

\* The frame that holds the locals of thread t's invocation: its own.
FrameOf(t) == t

\* The dataset of the concurrent model: three different response curves on
\* one grid.
MTDatasets ==
    {d \in Datasets :
        /\ d.g_bar.shape = RICDShape
        /\ d.r_bar.values[GridLen] = R(0, 1)
        /\ d.g_bar.values[GridLen] = R(GridLen, 1)
        /\ d.b_bar.values[1] = d.b_bar.values[GridLen]}

SetPc(t, p) == [threads EXCEPT ![t].pc = p]

\* The call: the parameters are bound to the caller's objects.
MTCall(t) ==
    /\ threads[t].pc = "idle"
    /\ frames' = [frames EXCEPT ![FrameOf(t)] =
                     [spd |-> "spd_arg", illuminant |-> "illuminant_arg",
                      k_rgb |-> <<>>, E_rgb |-> <<>>]]
    /\ threads' = SetPc(t, "align_spd")
    /\ UNCHANGED <<idtVars, csVars, exVars>>

\* Lines 87-89.
MTAlignSpd(t) ==
    /\ threads[t].pc = "align_spd"
    /\ LET a == AlignedClone(heap, frames[FrameOf(t)].spd,
                             CloneRef("spd_clone", t), ACES_RICD.shape)
       IN  /\ heap' = a.heap
           /\ frames' = [frames EXCEPT ![FrameOf(t)].spd = a.ref]
    /\ threads' = SetPc(t, "align_illuminant")
    /\ UNCHANGED <<ACES_RICD, pc, spd, illuminant, k_rgb, E_rgb, csVars, exVars>>

\* Lines 91-92.
MTAlignIlluminant(t) ==
    /\ threads[t].pc = "align_illuminant"
    /\ LET a == AlignedClone(heap, frames[FrameOf(t)].illuminant,
                             CloneRef("illuminant_clone", t), ACES_RICD.shape)
       IN  /\ heap' = a.heap
           /\ frames' = [frames EXCEPT ![FrameOf(t)].illuminant = a.ref]
    /\ threads' = SetPc(t, "k")
    /\ UNCHANGED <<ACES_RICD, pc, spd, illuminant, k_rgb, E_rgb, csVars, exVars>>

\* Lines 94-105.
MTNormalise(t) ==
    /\ threads[t].pc = "k"
    /\ LET fr == frames[FrameOf(t)]
       IN  frames' = [frames EXCEPT ![FrameOf(t)].k_rgb =
                         ComputeK(heap[fr.illuminant].values, Bars(ACES_RICD))]
    /\ threads' = SetPc(t, "E")
    /\ UNCHANGED <<idtVars, csVars, exVars>>

\* Lines 107-111.
MTIntegrate(t) ==
    /\ threads[t].pc = "E"
    /\ LET fr == frames[FrameOf(t)]
       IN  frames' = [frames EXCEPT ![FrameOf(t)].E_rgb =
                         ComputeE(fr.k_rgb, heap[fr.illuminant].values,
                                  heap[fr.spd].values, Bars(ACES_RICD))]
    /\ threads' = SetPc(t, "flare_add")
    /\ UNCHANGED <<idtVars, csVars, exVars>>

\* Line 114.
MTAddFlare(t) ==
    /\ threads[t].pc = "flare_add"
    /\ frames' = [frames EXCEPT ![FrameOf(t)].E_rgb = FlareAdd(frames[FrameOf(t)].E_rgb)]
    /\ threads' = SetPc(t, "flare_mul")
    /\ UNCHANGED <<idtVars, csVars, exVars>>

\* Lines 115-117: the rescaling, and the return of E_rgb to the caller.
MTScaleFlareAndReturn(t) ==
    /\ threads[t].pc = "flare_mul"
    /\ LET E == FlareMul(frames[FrameOf(t)].E_rgb)
       IN  /\ frames' = [frames EXCEPT ![FrameOf(t)].E_rgb = E]
           /\ threads' = [threads EXCEPT ![t] = [pc |-> "done", result |-> E]]
    /\ UNCHANGED <<idtVars, csVars, exVars>>

\* The two objects and the dataset exist before any thread calls.
InitMT ==
    /\ CSIdle /\ EXIdle /\ MTIdle
    /\ ACES_RICD \in MTDatasets
    /\ \E s \in Objects(SpdLevels), i \in Objects(IlluminantLevels) :
          heap = [r \in MTRefs |-> IF r = "spd_arg" THEN s
                                   ELSE IF r = "illuminant_arg" THEN i
                                   ELSE NoObject]
    /\ pc = "idle"
    /\ spd = "none"
    /\ illuminant = "none"
    /\ k_rgb = <<>>
    /\ E_rgb = <<>>

NextMT ==
    \E t \in Threads :
        \/ MTCall(t)
        \/ MTAlignSpd(t)
        \/ MTAlignIlluminant(t)
        \/ MTNormalise(t)
        \/ MTIntegrate(t)
        \/ MTAddFlare(t)
        \/ MTScaleFlareAndReturn(t)

SpecMT == InitMT /\ [][NextMT]_vars

(***************************************************************************)
(* Properties of the concurrent invocations.                               *)
(***************************************************************************)
\* What an invocation running alone returns for the objects s and i: the
\* statements of the function one after the other.
RunAlone(s, i, ricd) ==
    LET h0 == [r \in Refs |-> IF r = "spd_arg" THEN s
                              ELSE IF r = "illuminant_arg" THEN i
                              ELSE NoObject]
        a1 == AlignedClone(h0, "spd_arg", "spd_clone", ricd.shape)
        a2 == AlignedClone(a1.heap, "illuminant_arg", "illuminant_clone", ricd.shape)
        il == a2.heap[a2.ref].values
        sp == a2.heap[a1.ref].values
        kk == ComputeK(il, Bars(ricd))
    IN  FlareMul(FlareAdd(ComputeE(kk, il, sp, Bars(ricd))))

C14_SameAsAloneInv ==
    \A t \in Threads :
        threads[t].pc = "done" =>
            threads[t].result = RunAlone(heap["spd_arg"], heap["illuminant_arg"], ACES_RICD)

\* C14: in every interleaving of the invocations, which share spd, illuminant
\* and ACES_RICD, each invocation returns the array it returns when it runs
\* alone; no step writes to the shared objects, and the locals of an invocation
\* change only in the steps of its own thread.
C14_ConcurrentInvocationsPure ==
    /\ []C14_SameAsAloneInv
    /\ [][/\ heap'["spd_arg"] = heap["spd_arg"]
          /\ heap'["illuminant_arg"] = heap["illuminant_arg"]
          /\ ACES_RICD' = ACES_RICD
          /\ \A t \in Threads : threads'[t] = threads[t] => frames'[t] = frames[t]]_mtVars

C14_Witness ==
    /\ threads[1].pc = "flare_mul"
    /\ threads[2].pc = "done"
    /\ heap["spd_arg"].values = <<R(18, 100), R(1, 1)>>
    /\ heap["illuminant_arg"].shape # ACES_RICD.shape
    /\ frames[1].illuminant # frames[2].illuminant
    /\ \A c \in Channels : IsFinite(threads[2].result[c])
    /\ threads[2].result[1] # threads[2].result[3]
    /\ threads[2].result = RunAlone(heap["spd_arg"], heap["illuminant_arg"], ACES_RICD)

(***************************************************************************)
(* Scaling of the illuminant.                                              *)
(***************************************************************************)
\* Positive constants an illuminant is scaled by.
ScaleFactors == {R(1, 2), R(3, 1), R(50, 9)}

\* The object with every value multiplied by c.
Scaled(obj, c) ==
    [shape |-> obj.shape, values |-> [i \in 1..Len(obj.values) |-> RMul(c, obj.values[i])]]

\* C16: the array the function returns for spd and illuminant is the array it
\* returns for spd and the illuminant with every value multiplied by a positive
\* constant c (a channel whose normalisation sum is zero is nan in both).
C16_IlluminantScaleInvariant ==
    pc = "done" =>
        \A c \in ScaleFactors :
            E_rgb = RunAlone(CallerSpd, Scaled(CallerIlluminant, c), ACES_RICD)

C16_Witness ==
    /\ pc = "done"
    /\ NormSumsNonZero
    /\ CallerIlluminant.values = <<R(18, 100), R(1, 1)>>
    /\ ~IsFlat(CallerSpd.values, CallerSpd.values[1])
    /\ E_rgb[1] # E_rgb[2] /\ E_rgb[2] # E_rgb[3]
    /\ E_rgb = RunAlone(CallerSpd, Scaled(CallerIlluminant, R(3, 1)), ACES_RICD)

==========================================================================
